---- MODULE Spec2Model ----
(***************************************************************************)
(* SimpleHttpOperator (airflow/providers/http/operators/http.py): one      *)
(* operator object is constructed, execute(context) is called on it once,  *)
(* and execute walks through its statements: hook construction, the        *)
(* "Calling HTTP method" log line, http.run, the optional response log,    *)
(* the optional response_check, the optional response_filter, and the      *)
(* return of response.text.  The collaborators (http.run, the user's       *)
(* callables) return or raise; what they return or raise is chosen         *)
(* nondeterministically from small sets.                                   *)
(***************************************************************************)
EXTENDS Naturals, Sequences, FiniteSets

VARIABLES
    state,        \* "Created" | "Executing" | "Succeeded" | "Failed"
    pc,           \* index into Steps of the statement execute is at
    config,       \* the operator's fields, set by __init__
    context,      \* the context execute was called with
    hook,         \* the HttpHook built at line 98
    response,     \* the local `response` of execute
    log,          \* messages emitted through self.log
    requests,     \* calls made to http.run
    checkCalls,   \* calls made to response_check
    filterCalls,  \* calls made to response_filter
    trace,        \* collaborator calls in the order they were made
    checkRet,     \* what response_check returned
    filterRet,    \* what response_filter returned
    raised,       \* the exception that was raised inside execute
    result,       \* the value execute returned
    error         \* the exception that left execute

vars == <<state, pc, config, context, hook, response, log, requests,
          checkCalls, filterCalls, trace, checkRet, filterRet, raised,
          result, error>>

(***************************************************************************)
(* Python values, as far as execute looks at them: a type tag, a number    *)
(* and a string.                                                          *)
(***************************************************************************)
PyNone == [t |-> "NoneType", n |-> 0, s |-> ""]
PyBool(b) == [t |-> "bool", n |-> IF b THEN 1 ELSE 0, s |-> ""]
PyInt(i) == [t |-> "int", n |-> i, s |-> ""]
PyStr(x) == [t |-> "str", n |-> 0, s |-> x]
Unset == [t |-> "unset", n |-> 0, s |-> ""]

\* bool(v), as `not v` of line 107 evaluates it.
Truthy(v) ==
    CASE v.t = "bool" -> v.n # 0
      [] v.t = "int" -> v.n # 0
      [] v.t = "str" -> v.s # ""
      [] v.t = "NoneType" -> FALSE
      [] OTHER -> TRUE

(***************************************************************************)
(* The inputs.                                                             *)
(***************************************************************************)
Texts == {"", "{\"a\": 1}", " body\n"}
Responses == {[status_code |-> 200, text |-> x] : x \in Texts}
NoResponse == [status_code |-> 0, text |-> ""]

RunErrors == {"AirflowNotFoundException", "ConnectionError", "AirflowException: 404:Not Found"}
CheckErrors == {"KeyError raised in response_check"}
FilterErrors == {"JSONDecodeError raised in response_filter"}
NoError == ""

CheckReturnValues == {PyBool(TRUE), PyBool(FALSE), PyNone, PyInt(0), PyInt(1),
                      PyStr(""), PyStr("ok")}
FilterReturnValues(r) == {PyStr(r.text), PyStr("filtered"), PyInt(1), PyNone}

FullContext == [k \in {"ds", "ti", "run_id"} |->
                  CASE k = "ds" -> "2026-01-01"
                    [] k = "ti" -> "<TaskInstance>"
                    [] OTHER -> "manual__1"]
Contexts == {[k \in K |-> FullContext[k]] : K \in {{}, {"ds"}, {"ds", "ti", "run_id"}}}

\* A callable is known by its name and its declared parameter names.
NoCallable == [name |-> "None", params |-> <<>>]
CheckCallables == {[name |-> "check_plain", params |-> <<"response">>],
                   [name |-> "check_ds", params |-> <<"response", "ds", "limit">>]}
FilterCallables == {[name |-> "filter_plain", params |-> <<"response">>],
                    [name |-> "filter_ti", params |-> <<"response", "ti">>]}

\* `x or {}` of lines 87, 88 and 91.
OrEmptyDict(x) == IF x \in {"None", "{}"} THEN "{}" ELSE x

\* `if self.response_check:` / `if self.response_filter:`.
IsSet(c) == c.name # "None"

(***************************************************************************)
(* __init__ (lines 68-93).  The fields that execute only hands on to the   *)
(* hook keep their defaults.                                               *)
(***************************************************************************)
SimpleHttpOperator(endpoint, data, response_check, response_filter, log_response) ==
    [http_conn_id    |-> "http_default",
     method          |-> "POST",
     endpoint        |-> endpoint,
     headers         |-> OrEmptyDict("None"),
     data            |-> OrEmptyDict(data),
     response_check  |-> response_check,
     response_filter |-> response_filter,
     extra_options   |-> OrEmptyDict("None"),
     log_response    |-> log_response,
     auth_type       |-> "HTTPBasicAuth"]

\* HttpHook(self.method, http_conn_id=..., auth_type=...) of line 98.
HttpHook(method, http_conn_id, auth_type) ==
    [method |-> method, http_conn_id |-> http_conn_id, auth_type |-> auth_type]
NoHook == [method |-> "", http_conn_id |-> "", auth_type |-> ""]

\* determine_kwargs(func, args, kwargs): the entries of kwargs whose keys are
\* declared parameter names of func.
determine_kwargs(func, args, kwargs) ==
    LET names == {func.params[i] : i \in DOMAIN func.params}
    IN  [k \in names \cap DOMAIN kwargs |-> kwargs[k]]

(***************************************************************************)
(* The statements of execute, in program order (lines 100-112).            *)
(***************************************************************************)
StepsRunTwice ==
    <<"log_calling", "run", "run", "log_response", "response_check",
      "response_filter", "return_text">>
StepsCheckBeforeLog ==
    <<"log_calling", "run", "response_check", "log_response",
      "response_filter", "return_text">>
Steps ==
    <<"log_calling", "run", "log_response", "response_check",
      "response_filter", "return_text">>

At(step) == state = "Executing" /\ pc \in DOMAIN Steps /\ Steps[pc] = step

Info(msg) == [level |-> "info", msg |-> msg]

\* line 100
CallingLog == <<Info("Calling HTTP method")>>

\* line 102: http.run(self.endpoint, self.data, self.headers, self.extra_options)
RunCall(h, cfg) ==
    [hook |-> h, endpoint |-> cfg.endpoint, data |-> cfg.data,
     headers |-> cfg.headers, extra_options |-> cfg.extra_options]

\* lines 103-104
ResponseLogAlways(cfg, resp) == <<Info(resp.text)>>
ResponseLog(cfg, resp) ==
    IF cfg.log_response THEN <<Info(resp.text)>> ELSE <<>>

\* lines 106-107: self.response_check(response, **kwargs)
CheckCallWholeContext(cfg, resp, ctx) ==
    [func |-> cfg.response_check, args |-> <<resp>>, kwargs |-> ctx]
CheckCall(cfg, resp, ctx) ==
    [func |-> cfg.response_check, args |-> <<resp>>,
     kwargs |-> determine_kwargs(cfg.response_check, <<resp>>, ctx)]

\* line 107: `if not self.response_check(...)` lets the value pass
CheckPassesAlways(v) == TRUE
CheckPassesUnlessFalse(v) == v # PyBool(FALSE)
CheckPasses(v) == Truthy(v)

\* line 108
CheckFailed == "AirflowException: Response check returned False."

\* lines 110-111: self.response_filter(response, **kwargs)
FilterCall(cfg, resp, ctx) ==
    [func |-> cfg.response_filter, args |-> <<resp>>,
     kwargs |-> determine_kwargs(cfg.response_filter, <<resp>>, ctx)]

\* line 111: `return self.response_filter(...)`
FilteredResultIgnored(v, resp) == PyStr(resp.text)
FilteredResult(v, resp) == v

\* line 112: `return response.text`
RawResultStripped(resp) == PyStr(IF resp.text = " body\n" THEN "body" ELSE resp.text)
RawResult(resp) == PyStr(resp.text)

\* execute has no try/except: an exception raised inside it leaves it as it is.
RaisedWrapped(e) == [state |-> "Failed", error |-> "AirflowException"]
RaisedSwallowed(e) == [state |-> "Succeeded", error |-> e]
Raised(e) == [state |-> "Failed", error |-> e]

Init ==
    /\ state = "Created"
    /\ pc = 0
    /\ config \in {SimpleHttpOperator(e, d, c, f, l) :
                     e \in {"None", "/api"}, d \in {"None", "a=1"},
                     c \in {NoCallable} \cup CheckCallables,
                     f \in {NoCallable} \cup FilterCallables,
                     l \in BOOLEAN}
    /\ context = <<>>
    /\ hook = NoHook
    /\ response = NoResponse
    /\ log = <<>>
    /\ requests = <<>>
    /\ checkCalls = <<>>
    /\ filterCalls = <<>>
    /\ trace = <<>>
    /\ checkRet = Unset
    /\ filterRet = Unset
    /\ raised = NoError
    /\ result = Unset
    /\ error = NoError

\* `raise` of exception e at the current statement.
Raise(e) ==
    /\ raised' = e
    /\ state' = Raised(e).state
    /\ error' = Raised(e).error
    /\ pc' = 0
    /\ UNCHANGED result

\* `return v` at the current statement.
Return(v) ==
    /\ state' = "Succeeded"
    /\ result' = v
    /\ pc' = 0
    /\ UNCHANGED <<raised, error>>

\* control goes on to the next statement.
Continue ==
    /\ pc' = pc + 1
    /\ UNCHANGED <<state, raised, result, error>>

\* lines 95-98: execute is entered and builds the hook.
Execute(ctx) ==
    /\ state = "Created"
    /\ state' = "Executing"
    /\ pc' = 1
    /\ context' = ctx
    /\ hook' = HttpHook(config.method, config.http_conn_id, config.auth_type)
    /\ UNCHANGED <<config, response, log, requests, checkCalls, filterCalls,
                   trace, checkRet, filterRet, raised, result, error>>

\* line 100
LogCalling ==
    /\ At("log_calling")
    /\ log' = log \o CallingLog
    /\ trace' = Append(trace, "log_calling")
    /\ Continue
    /\ UNCHANGED <<config, context, hook, response, requests, checkCalls,
                   filterCalls, checkRet, filterRet>>

\* line 102, http.run returns r
HttpRunReturns(r) ==
    /\ At("run")
    /\ requests' = Append(requests, RunCall(hook, config))
    /\ trace' = Append(trace, "run")
    /\ response' = r
    /\ Continue
    /\ UNCHANGED <<config, context, hook, log, checkCalls, filterCalls,
                   checkRet, filterRet>>

\* line 102, http.run raises e
HttpRunRaises(e) ==
    /\ At("run")
    /\ requests' = Append(requests, RunCall(hook, config))
    /\ trace' = Append(trace, "run")
    /\ Raise(e)
    /\ UNCHANGED <<config, context, hook, response, log, checkCalls,
                   filterCalls, checkRet, filterRet>>

\* lines 103-104
LogResponse ==
    /\ At("log_response")
    /\ log' = log \o ResponseLog(config, response)
    /\ trace' = trace \o [i \in 1..Len(ResponseLog(config, response)) |-> "log_response"]
    /\ Continue
    /\ UNCHANGED <<config, context, hook, response, requests, checkCalls,
                   filterCalls, checkRet, filterRet>>

\* line 105, response_check is not set
CheckSkipped ==
    /\ At("response_check")
    /\ ~IsSet(config.response_check)
    /\ Continue
    /\ UNCHANGED <<config, context, hook, response, log, requests, checkCalls,
                   filterCalls, trace, checkRet, filterRet>>

\* lines 105-108, response_check returns v
CheckReturns(v) ==
    /\ At("response_check")
    /\ IsSet(config.response_check)
    /\ checkCalls' = Append(checkCalls, CheckCall(config, response, context))
    /\ trace' = Append(trace, "response_check")
    /\ checkRet' = v
    /\ IF CheckPasses(v) THEN Continue ELSE Raise(CheckFailed)
    /\ UNCHANGED <<config, context, hook, response, log, requests,
                   filterCalls, filterRet>>

\* lines 105-107, response_check raises e
CheckRaises(e) ==
    /\ At("response_check")
    /\ IsSet(config.response_check)
    /\ checkCalls' = Append(checkCalls, CheckCall(config, response, context))
    /\ trace' = Append(trace, "response_check")
    /\ Raise(e)
    /\ UNCHANGED <<config, context, hook, response, log, requests,
                   filterCalls, checkRet, filterRet>>

\* line 109, response_filter is not set
FilterSkipped ==
    /\ At("response_filter")
    /\ ~IsSet(config.response_filter)
    /\ Continue
    /\ UNCHANGED <<config, context, hook, response, log, requests, checkCalls,
                   filterCalls, trace, checkRet, filterRet>>

\* lines 109-111, response_filter returns v
FilterReturns(v) ==
    /\ At("response_filter")
    /\ IsSet(config.response_filter)
    /\ filterCalls' = Append(filterCalls, FilterCall(config, response, context))
    /\ trace' = Append(trace, "response_filter")
    /\ filterRet' = v
    /\ Return(FilteredResult(v, response))
    /\ UNCHANGED <<config, context, hook, response, log, requests,
                   checkCalls, checkRet>>

\* lines 109-111, response_filter raises e
FilterRaises(e) ==
    /\ At("response_filter")
    /\ IsSet(config.response_filter)
    /\ filterCalls' = Append(filterCalls, FilterCall(config, response, context))
    /\ trace' = Append(trace, "response_filter")
    /\ Raise(e)
    /\ UNCHANGED <<config, context, hook, response, log, requests,
                   checkCalls, checkRet, filterRet>>

\* line 112
ReturnText ==
    /\ At("return_text")
    /\ Return(RawResult(response))
    /\ UNCHANGED <<config, context, hook, response, log, requests, checkCalls,
                   filterCalls, trace, checkRet, filterRet>>

\* the statements of execute, once it has been entered
Statement ==
    \/ LogCalling
    \/ \E r \in Responses : HttpRunReturns(r)
    \/ \E e \in RunErrors : HttpRunRaises(e)
    \/ LogResponse
    \/ CheckSkipped
    \/ \E v \in CheckReturnValues : CheckReturns(v)
    \/ \E e \in CheckErrors : CheckRaises(e)
    \/ FilterSkipped
    \/ \E v \in FilterReturnValues(response) : FilterReturns(v)
    \/ \E e \in FilterErrors : FilterRaises(e)
    \/ ReturnText

Next ==
    \/ \E ctx \in Contexts : Execute(ctx)
    \/ Statement

Spec == Init /\ [][Next]_vars

\* execute is synchronous straight-line code: once entered, its next
\* statement is taken as soon as the collaborator it calls returns or raises.
FairSpec == Spec /\ WF_vars(Statement)

(***************************************************************************)
(* Properties.                                                             *)
(***************************************************************************)
Terminal == state \in {"Succeeded", "Failed"}
TransportSucceeded == response # NoResponse
Count(seq, x) == Cardinality({i \in DOMAIN seq : seq[i] = x})
ParamNames(func) == {func.params[i] : i \in DOMAIN func.params}

\* C1: whenever response_check has returned False, execute has failed with
\* the "Response check returned False." exception, has returned no value and
\* has not called response_filter, whether or not a filter is configured.
C1_CheckFalseFails ==
    checkRet = PyBool(FALSE) =>
        /\ state = "Failed"
        /\ error = CheckFailed
        /\ result = Unset
        /\ filterCalls = <<>>
        /\ Count(trace, "response_filter") = 0

C1_Witness ==
    /\ checkRet = PyBool(FALSE)
    /\ IsSet(config.response_filter)
    /\ state = "Failed"

\* C2: when http.run returned, response_check is set and returned a passing
\* value and response_filter is set and returned, execute succeeds and its
\* result is the value response_filter returned (not response.text, unless
\* that is what the filter returned).
C2_FilterResultReturned ==
    ( /\ Terminal
      /\ TransportSucceeded
      /\ IsSet(config.response_check)
      /\ checkRet # Unset /\ Truthy(checkRet)
      /\ IsSet(config.response_filter)
      /\ raised = NoError )
    => /\ state = "Succeeded"
       /\ Len(filterCalls) = 1
       /\ filterRet # Unset
       /\ result = filterRet

C2_Witness ==
    /\ state = "Succeeded"
    /\ checkRet = PyBool(TRUE)
    /\ IsSet(config.response_filter)
    /\ result = PyStr("filtered")
    /\ result # PyStr(response.text)

\* C3: when http.run returned and neither response_check nor response_filter
\* is set, execute succeeds and its result is response.text itself.
C3_RawTextReturned ==
    ( /\ Terminal
      /\ TransportSucceeded
      /\ ~IsSet(config.response_check)
      /\ ~IsSet(config.response_filter) )
    => /\ state = "Succeeded"
       /\ result.t = "str"
       /\ result.s = response.text
       /\ checkCalls = <<>> /\ filterCalls = <<>>

C3_Witness ==
    /\ state = "Succeeded"
    /\ ~IsSet(config.response_check)
    /\ ~IsSet(config.response_filter)
    /\ response.text = " body\n"
    /\ result = PyStr(" body\n")

\* C4 as claimed: a finished execute has emitted exactly one log message when
\* log_response is true and none when it is false.
C4_Original ==
    Terminal => Len(log) = IF config.log_response THEN 1 ELSE 0

\* C4 as amended: every finished execute has emitted the fixed message
\* "Calling HTTP method" first; when http.run returned, the response body was
\* emitted after it exactly once if log_response is true (the message being
\* response.text) and not at all if it is false; when http.run raised, the
\* response body was not emitted.  So no execute emits more than two messages.
C4_LogEmissions ==
    Terminal =>
        /\ Len(log) = 1 + Count(trace, "log_response")
        /\ log[1] = [level |-> "info", msg |-> "Calling HTTP method"]
        /\ TransportSucceeded =>
             /\ Count(trace, "log_response") = IF config.log_response THEN 1 ELSE 0
             /\ config.log_response => log[2] = [level |-> "info", msg |-> response.text]
        /\ ~TransportSucceeded => Count(trace, "log_response") = 0

C4_Witness ==
    /\ Terminal
    /\ config.log_response
    /\ TransportSucceeded
    /\ Len(log) = 2
    /\ log[2].msg = "{\"a\": 1}"

\* C5: execute calls http.run at most once at any time, and a finished
\* execute has called it exactly once, whatever the outcome.
C5_OneRequest ==
    /\ Len(requests) <= 1
    /\ Count(trace, "run") = Len(requests)
    /\ Terminal => Len(requests) = 1

C5_Witness ==
    /\ state = "Failed"
    /\ raised \in RunErrors
    /\ Len(requests) = 1

\* C6: an exception raised inside execute leaves execute as that same
\* exception, with no result; and when http.run raised, the response was not
\* logged and neither response_check nor response_filter was called.
C6_ErrorsPropagate ==
    /\ raised # NoError =>
         /\ state = "Failed"
         /\ error = raised
         /\ result = Unset
    /\ state = "Failed" =>
         raised \in RunErrors \cup CheckErrors \cup FilterErrors \cup {CheckFailed}
    /\ raised \in RunErrors =>
         /\ trace = <<"log_calling", "run">>
         /\ Len(log) = 1
         /\ checkCalls = <<>>
         /\ filterCalls = <<>>

C6_Witness ==
    /\ state = "Failed"
    /\ error = "ConnectionError"
    /\ config.log_response
    /\ IsSet(config.response_check)
    /\ IsSet(config.response_filter)

\* C7: Created goes only to Executing, Executing only to Succeeded or Failed,
\* nothing leaves Succeeded or Failed; Succeeded carries a result and no
\* error, Failed an error and no result; and an execute that was entered
\* eventually succeeds or fails.
C7_StateMachine ==
    /\ [][ /\ state = "Created" => state' = "Executing"
           /\ state = "Executing" => state' \in {"Executing", "Succeeded", "Failed"}
           /\ Terminal => state' = state ]_vars
    /\ [](state = "Succeeded" => result # Unset /\ error = NoError)
    /\ [](state = "Failed" => error # NoError /\ result = Unset)
    /\ [](state \in {"Created", "Executing"} => result = Unset /\ error = NoError)
    /\ (state = "Executing") ~> Terminal

C7_Witness ==
    /\ Terminal
    /\ pc = 0
    /\ Len(trace) >= 4

\* C8: every call of response_check and of response_filter has the response
\* as its only positional argument and, as keyword arguments, exactly the
\* context entries whose keys are declared parameter names of the callable.
C8_KwargsMatchParams ==
    /\ \A i \in DOMAIN checkCalls :
         /\ checkCalls[i].func = config.response_check
         /\ checkCalls[i].args = <<response>>
         /\ DOMAIN checkCalls[i].kwargs =
              ParamNames(config.response_check) \cap DOMAIN context
         /\ \A k \in DOMAIN checkCalls[i].kwargs : checkCalls[i].kwargs[k] = context[k]
    /\ \A i \in DOMAIN filterCalls :
         /\ filterCalls[i].func = config.response_filter
         /\ filterCalls[i].args = <<response>>
         /\ DOMAIN filterCalls[i].kwargs =
              ParamNames(config.response_filter) \cap DOMAIN context
         /\ \A k \in DOMAIN filterCalls[i].kwargs : filterCalls[i].kwargs[k] = context[k]

C8_Witness ==
    /\ Len(checkCalls) = 1
    /\ config.response_check.name = "check_ds"
    /\ DOMAIN context = {"ds", "ti", "run_id"}
    /\ DOMAIN checkCalls[1].kwargs = {"ds"}
    /\ state = "Succeeded"

\* C9: http.run, the response log, response_check and response_filter happen
\* in that order, each at most once; a call of response_check comes after the
\* response log when log_response is true (so a failed check leaves the
\* response logged), and response_filter is called only after a configured
\* response_check has returned a passing value.
StepRank(x) ==
    CASE x = "log_calling" -> 0
      [] x = "run" -> 1
      [] x = "log_response" -> 2
      [] x = "response_check" -> 3
      [] x = "response_filter" -> 4
      [] OTHER -> 5

C9_StepOrder ==
    /\ \A i, j \in DOMAIN trace : i < j => StepRank(trace[i]) < StepRank(trace[j])
    /\ (Count(trace, "response_check") > 0 /\ config.log_response) =>
           /\ Count(trace, "log_response") = 1
           /\ \E i \in DOMAIN log : log[i].msg = response.text
    /\ (Count(trace, "response_filter") > 0 /\ IsSet(config.response_check)) =>
           /\ Count(trace, "response_check") = 1
           /\ checkRet # Unset
           /\ Truthy(checkRet)

C9_Witness ==
    /\ state = "Failed"
    /\ raised = CheckFailed
    /\ config.log_response
    /\ trace = <<"log_calling", "run", "log_response", "response_check">>

\* C10: when response_check returns a falsy value other than False (None, 0,
\* the empty string), execute fails with the same exception as for False and
\* response_filter is not called.
C10_FalsyFails ==
    ( \/ checkRet.t = "NoneType"
      \/ checkRet.t = "int" /\ checkRet.n = 0
      \/ checkRet.t = "str" /\ checkRet.s = "" )
    => /\ state = "Failed"
       /\ error = CheckFailed
       /\ result = Unset
       /\ filterCalls = <<>>

C10_Witness ==
    /\ checkRet = PyStr("")
    /\ IsSet(config.response_filter)
    /\ state = "Failed"
    /\ error = CheckFailed

====
